---- MODULE Spec2Model ----
(***************************************************************************)
(* Model of src/structs.rs of x8 (hidden HTTP parameter discovery):        *)
(* RequestDefaults (the template), Request (prepare / send / retry),       *)
(* Response (compare, reflection counting, reflection analysis).           *)
(*                                                                         *)
(* Strings are sequences of one-character strings, so that contains,      *)
(* replace, matches().count(), pop and starts_with are computed the way    *)
(* the Rust standard library computes them.                                *)
(***************************************************************************)
EXTENDS Integers, Sequences, FiniteSets, TLC

VARIABLES
    t_in,        \* arguments of the last RequestDefaults::new call
    defaults,    \* the RequestDefaults it returned (NoTemplate before)
    t_calls,     \* number of new/recreate calls made so far
    c_resp,      \* a Response under comparison: its code, the baseline's code, the diff oracle's answer
    c_hist,      \* the compare() calls made on it: old_diffs passed and result returned
    req,         \* a Request built on `defaults`
    resp,        \* the Response made from it (NoResponse before)
    result,      \* what proceed_reflected_parameters returned on resp (NoResult before)
    panicked,    \* TRUE once an operation on resp has panicked
    calls,       \* number of operations applied to req and resp so far
    tasks,       \* the send_by() futures in flight: position, attempts, errors, outcome
    thread       \* the task that occupies the executor thread (0: none)

tvars == <<t_in, defaults, t_calls>>
cvars == <<c_resp, c_hist>>
rvars == <<req, resp, result, panicked, calls>>
svars == <<tasks, thread>>

vars == <<t_in, defaults, t_calls, c_resp, c_hist, req, resp, result, panicked, calls,
          tasks, thread>>

-----------------------------------------------------------------------------
(* Bounds *)

MaxBody == 3        \* most pieces of an input body
MaxPath == 2        \* most pieces of an input URL after the leading "/"
MaxRecreate == 1    \* recreate calls per template
MaxDiffLines == 3   \* most lines the diff oracle returns
MaxOldDiffs == 1    \* longest caller-supplied old_diffs
MaxCompare == 2     \* compare() calls per response
MaxParams == 2      \* longest list of candidate parameters of a request
MaxHeaderParams == 1 \* longest list of a request that injects into header names
MaxCalls == 2       \* operations applied to one request and its response
MaxText == 3        \* most pieces a response body is made of
MaxTasks == 2       \* send_by() futures in flight on the executor
MaxAmount == 3      \* largest defaults.amount_of_reflections

-----------------------------------------------------------------------------
(* str helpers: std::str contains / starts_with / replace / matches *)

RECURSIVE SeqsUpTo(_, _)
SeqsUpTo(S, n) ==
    IF n = 0 THEN {<<>>}
    ELSE LET shorter == SeqsUpTo(S, n - 1)
         IN  shorter \cup {Append(s, c) : s \in {x \in shorter : Len(x) = n - 1}, c \in S}

RECURSIVE Concat(_)
Concat(strs) == IF strs = <<>> THEN <<>> ELSE Head(strs) \o Concat(Tail(strs))

IsMatchAt(s, sub, i) ==
    /\ i + Len(sub) - 1 <= Len(s)
    /\ \A j \in 1..Len(sub) : s[i + j - 1] = sub[j]

Contains(s, sub) == \E i \in 1..(Len(s) + 1) : IsMatchAt(s, sub, i)

StartsWith(s, prefix) == IsMatchAt(s, prefix, 1)

RECURSIVE ReplaceFrom(_, _, _, _)
ReplaceFrom(s, from, to, i) ==
    IF i > Len(s) THEN <<>>
    ELSE IF IsMatchAt(s, from, i) THEN to \o ReplaceFrom(s, from, to, i + Len(from))
    ELSE <<s[i]>> \o ReplaceFrom(s, from, to, i + 1)

\* str::replace with a non-empty pattern: every non-overlapping match, left to right
Replace(s, from, to) == ReplaceFrom(s, from, to, 1)

RECURSIVE MatchesFrom(_, _, _)
MatchesFrom(s, sub, i) ==
    IF i > Len(s) THEN 0
    ELSE IF IsMatchAt(s, sub, i) THEN 1 + MatchesFrom(s, sub, i + Len(sub))
    ELSE MatchesFrom(s, sub, i + 1)

\* str::matches(pat).count() with a non-empty pattern
MatchesCount(s, sub) == MatchesFrom(s, sub, 1)

\* String::pop: drops the last char, whatever it is
Pop(s) == IF Len(s) = 0 THEN s ELSE SubSeq(s, 1, Len(s) - 1)

-----------------------------------------------------------------------------
(* Literals of the source *)

PctS == <<"%", "s">>                                          \* "%s"
JsonTemplate == <<"\"", "{", "k", "}", "\"", ":", " ", "{", "v", "}">>  \* "\"{k}\": {v}"
UrlTemplate == <<"{", "k", "}", "=", "{", "v", "}">>          \* "{k}={v}"
JsonJoiner == <<",", " ">>                                    \* ", "
Amp == <<"&">>
Semicolon == <<";">>

InjectionPlace == {"Path", "Body", "Headers", "HeaderValue"}
DataType == {"Json", "Urlencoded"}
None == "None"            \* Option::None of an enum
NoStr == <<"None">>        \* Option::None of a &str (no string has a character "None")

-----------------------------------------------------------------------------
(* RequestDefaults *)

\* Url::parse(url)?.path(): the part of the URL tail before the query or the
\* fragment, with the characters of the path percent-encode set escaped
RECURSIVE UrlPath(_)
UrlPath(u) ==
    IF u = <<>> THEN <<>>
    ELSE IF Head(u) \in {"?", "#"} THEN <<>>
    ELSE (CASE Head(u) = "{" -> <<"%", "7", "B">>
            [] Head(u) = "}" -> <<"%", "7", "D">>
            [] Head(u) = " " -> <<"%", "2", "0">>
            [] Head(u) = "\"" -> <<"%", "2", "2">>
            [] Head(u) = "<" -> <<"%", "3", "C">>
            [] Head(u) = ">" -> <<"%", "3", "E">>
            [] OTHER -> <<Head(u)>>) \o UrlPath(Tail(u))

\* guess_data_format with the Body rule applied to Path injection as well
guess_data_format_body_rule_for_path(body, injection_place, data_type) ==
    IF data_type # None
    THEN IF data_type = "Json"
         THEN [template |-> JsonTemplate, joiner |-> JsonJoiner, is_json |-> TRUE,  data_type |-> "Json"]
         ELSE [template |-> UrlTemplate,  joiner |-> Amp,        is_json |-> FALSE, data_type |-> "Urlencoded"]
    ELSE CASE injection_place \in {"Body", "Path"} ->
                IF StartsWith(body, <<"{">>)
                THEN [template |-> JsonTemplate, joiner |-> JsonJoiner, is_json |-> TRUE,  data_type |-> "Json"]
                ELSE [template |-> UrlTemplate,  joiner |-> Amp,        is_json |-> FALSE, data_type |-> "Urlencoded"]
           [] injection_place = "HeaderValue" ->
                [template |-> UrlTemplate, joiner |-> Semicolon, is_json |-> FALSE, data_type |-> None]
           [] injection_place = "Headers" ->
                [template |-> <<>>, joiner |-> <<>>, is_json |-> FALSE, data_type |-> None]

guess_data_format(body, injection_place, data_type) ==
    IF data_type # None
    THEN IF data_type = "Json"
         THEN [template |-> JsonTemplate, joiner |-> JsonJoiner, is_json |-> TRUE,  data_type |-> "Json"]
         ELSE [template |-> UrlTemplate,  joiner |-> Amp,        is_json |-> FALSE, data_type |-> "Urlencoded"]
    ELSE CASE injection_place = "Body" ->
                IF StartsWith(body, <<"{">>)
                THEN [template |-> JsonTemplate, joiner |-> JsonJoiner, is_json |-> TRUE,  data_type |-> "Json"]
                ELSE [template |-> UrlTemplate,  joiner |-> Amp,        is_json |-> FALSE, data_type |-> "Urlencoded"]
           [] injection_place = "HeaderValue" ->
                [template |-> UrlTemplate, joiner |-> Semicolon, is_json |-> FALSE, data_type |-> None]
           [] injection_place = "Path" ->
                [template |-> UrlTemplate, joiner |-> Amp, is_json |-> FALSE, data_type |-> "Urlencoded"]
           [] injection_place = "Headers" ->
                [template |-> <<>>, joiner |-> <<>>, is_json |-> FALSE, data_type |-> None]

\* fix_path_and_body that forgets the sentinel for a non-empty urlencoded body
fix_path_and_body_no_append(path, body, joiner, injection_place, data_type) ==
    CASE injection_place = "Body" ->
            IF Contains(body, PctS) THEN [path |-> path, body |-> body]
            ELSE IF body = <<>>
                 THEN IF data_type = "Urlencoded"
                      THEN [path |-> path, body |-> PctS]
                      ELSE [path |-> path, body |-> <<"{">> \o PctS \o <<"}">>]
                 ELSE IF data_type = "Urlencoded"
                      THEN [path |-> path, body |-> body \o joiner]
                      ELSE [path |-> path, body |-> Pop(body) \o <<",", " ">> \o PctS \o <<"}">>]
      [] injection_place = "Path" ->
            IF Contains(path, PctS) THEN [path |-> path, body |-> body]
            ELSE IF Contains(path, <<"?">>) THEN [path |-> joiner \o path \o PctS, body |-> body]
            ELSE IF joiner = Amp THEN [path |-> path \o <<"?">> \o PctS, body |-> body]
            ELSE [path |-> path \o PctS, body |-> body]
      [] OTHER -> [path |-> path, body |-> body]

fix_path_and_body(path, body, joiner, injection_place, data_type) ==
    CASE injection_place = "Body" ->
            IF Contains(body, PctS) THEN [path |-> path, body |-> body]
            ELSE IF body = <<>>
                 THEN IF data_type = "Urlencoded"
                      THEN [path |-> path, body |-> PctS]
                      ELSE [path |-> path, body |-> <<"{">> \o PctS \o <<"}">>]
                 ELSE IF data_type = "Urlencoded"
                      THEN [path |-> path, body |-> body \o joiner \o PctS]
                      ELSE [path |-> path, body |-> Pop(body) \o <<",", " ">> \o PctS \o <<"}">>]
      [] injection_place = "Path" ->
            IF Contains(path, PctS) THEN [path |-> path, body |-> body]
            ELSE IF Contains(path, <<"?">>) THEN [path |-> joiner \o path \o PctS, body |-> body]
            ELSE IF joiner = Amp THEN [path |-> path \o <<"?">> \o PctS, body |-> body]
            ELSE [path |-> path \o PctS, body |-> body]
      [] OTHER -> [path |-> path, body |-> body]

\* RequestDefaults::new, on a URL that parses (in.url is the URL after scheme://host:port)
new(in) ==
    LET g == guess_data_format(in.body, in.injection_place, in.data_type)
        template == IF in.template = NoStr THEN g.template ELSE in.template
        joiner == IF in.joiner = NoStr THEN g.joiner ELSE in.joiner
        pb == IF g.data_type # None
              THEN fix_path_and_body(UrlPath(in.url), in.body, joiner, in.injection_place, g.data_type)
              ELSE [path |-> UrlPath(in.url), body |-> in.body]
    IN  [path |-> pb.path, body |-> pb.body, custom_headers |-> in.custom_headers,
         template |-> template, joiner |-> joiner, encode |-> in.encode,
         is_json |-> g.is_json, injection_place |-> in.injection_place,
         initial_response |-> <<>>, amount_of_reflections |-> 0]

NoTemplate == [path |-> <<>>, body |-> <<>>, custom_headers |-> <<>>,
               template |-> <<>>, joiner |-> <<>>, encode |-> FALSE,
               is_json |-> FALSE, injection_place |-> None,
               initial_response |-> <<>>, amount_of_reflections |-> 0]

\* input bodies and URLs are made of pieces: a brace, a sentinel, a query
\* mark, another character
BodyPieces == {<<"{">>, <<"}">>, <<"%", "s">>, <<"a">>}
PathPieces == {<<"?">>, <<"%", "s">>, <<"a">>}
Bodies == {Concat(p) : p \in SeqsUpTo(BodyPieces, MaxBody)}
UrlTails == {<<"/">> \o Concat(p) : p \in SeqsUpTo(PathPieces, MaxPath)}
CustomJoiners == {Semicolon}
CustomTemplates == {<<"{", "k", "}">>}
XHeader == <<<<"X">>, <<"v">>>>                        \* a custom header X: v
CustomHeaders == {<<XHeader>>}

NewInputs ==
    [injection_place : InjectionPlace, data_type : DataType \cup {None},
     template : CustomTemplates \cup {NoStr}, joiner : CustomJoiners \cup {NoStr},
     url : UrlTails, body : Bodies, custom_headers : CustomHeaders, encode : {FALSE}]

NoInput == [injection_place |-> None, data_type |-> None, template |-> NoStr,
            joiner |-> NoStr, url |-> <<>>, body |-> <<>>, custom_headers |-> <<>>,
            encode |-> FALSE]

TemplateIdle == t_in = NoInput /\ defaults = NoTemplate /\ t_calls = 0

\* RequestDefaults::new(...)
New ==
    /\ t_calls = 0
    /\ \E in \in NewInputs :
        /\ t_in' = in
        /\ defaults' = new(in)
    /\ t_calls' = 1
    /\ UNCHANGED <<cvars, rvars, svars>>

\* RequestDefaults::recreate(data_type, template, joiner): new() on the template's own fields
Recreate ==
    /\ t_calls \in 1..MaxRecreate
    /\ \E dt \in DataType \cup {None}, tp \in CustomTemplates \cup {NoStr}, jn \in CustomJoiners \cup {NoStr} :
        LET in == [injection_place |-> defaults.injection_place, data_type |-> dt,
                   template |-> tp, joiner |-> jn, url |-> defaults.path, body |-> defaults.body,
                   custom_headers |-> defaults.custom_headers, encode |-> defaults.encode]
        IN  /\ t_in' = in
            /\ defaults' = new(in)
    /\ t_calls' = t_calls + 1
    /\ UNCHANGED <<cvars, rvars, svars>>


-----------------------------------------------------------------------------
(* Properties of the template (SpecTemplate) *)

Built == t_calls > 0
InputPath == UrlPath(t_in.url)
Inferred == t_in.data_type = None /\ t_in.template = NoStr /\ t_in.joiner = NoStr
SentinelCount(s) == MatchesCount(s, PctS)
IsJsonFormat == defaults.template = JsonTemplate /\ defaults.joiner = JsonJoiner /\ defaults.is_json
IsUrlencodedFormat == defaults.template = UrlTemplate /\ defaults.joiner = Amp /\ ~defaults.is_json
HeaderDefaults ==
    /\ t_in.injection_place = "HeaderValue" =>
          defaults.template = UrlTemplate /\ defaults.joiner = Semicolon /\ ~defaults.is_json
    /\ t_in.injection_place = "Headers" =>
          defaults.template = <<>> /\ defaults.joiner = <<>> /\ ~defaults.is_json

\* C8 as stated: every template built for Body or Path injection holds `%s`
\* exactly once over path and body together, in the body for Body injection
\* and in the path for Path injection, whatever the input path and body are.
C8_ExactlyOneSentinel ==
    (Built /\ defaults.injection_place \in {"Body", "Path"}) =>
        /\ SentinelCount(defaults.path) + SentinelCount(defaults.body) = 1
        /\ defaults.injection_place = "Body" => SentinelCount(defaults.body) = 1
        /\ defaults.injection_place = "Path" => SentinelCount(defaults.path) = 1

\* C8 amended: every template built for Body or Path injection holds `%s` at
\* least once in the injection field; when neither the input path nor the
\* input body contains `%s` and the joiner is the inferred one, `%s` occurs
\* exactly once over path and body together, in the injection field.
C8_SentinelAtInjectionSite ==
    (Built /\ defaults.injection_place \in {"Body", "Path"}) =>
        /\ defaults.injection_place = "Body" => SentinelCount(defaults.body) >= 1
        /\ defaults.injection_place = "Path" => SentinelCount(defaults.path) >= 1
        /\ (/\ ~Contains(InputPath, PctS)
            /\ ~Contains(t_in.body, PctS)
            /\ t_in.joiner = NoStr) =>
              /\ SentinelCount(defaults.path) + SentinelCount(defaults.body) = 1
              /\ defaults.injection_place = "Body" => SentinelCount(defaults.body) = 1
              /\ defaults.injection_place = "Path" => SentinelCount(defaults.path) = 1

\* C8 witness: a Body template built from a non-empty body without `%s`
C8_Witness ==
    /\ Built
    /\ defaults.injection_place = "Body"
    /\ t_in.body # <<>>
    /\ ~Contains(t_in.body, PctS)
    /\ ~Contains(InputPath, PctS)
    /\ t_in.joiner = NoStr
    /\ SentinelCount(defaults.body) = 1

\* "the body with only its terminating } removed"
WithoutTerminatingBrace(body) ==
    IF body # <<>> /\ body[Len(body)] = "}" THEN SubSeq(body, 1, Len(body) - 1) ELSE body

\* C9: sentinel insertion follows the normalization rules. For a field without
\* `%s`: Body/Urlencoded gives `%s` for an empty body and body + joiner + `%s`
\* otherwise; Body/JSON gives `{%s}` for an empty body and otherwise the body
\* with only its terminating `}` removed followed by `, %s}`; Path without `?`
\* and joiner `&` gives path + `?%s`. A field that already contains `%s` is
\* returned unchanged.
C9_NormalizationRules ==
    LET dt == guess_data_format(t_in.body, t_in.injection_place, t_in.data_type).data_type
    IN  Built =>
        /\ (t_in.injection_place = "Body" /\ ~Contains(t_in.body, PctS)) =>
              /\ defaults.path = InputPath
              /\ dt = "Urlencoded" =>
                    defaults.body = IF t_in.body = <<>> THEN PctS
                                    ELSE t_in.body \o defaults.joiner \o PctS
              /\ dt = "Json" =>
                    defaults.body = IF t_in.body = <<>> THEN <<"{", "%", "s", "}">>
                                    ELSE WithoutTerminatingBrace(t_in.body) \o <<",", " ", "%", "s", "}">>
        /\ (/\ t_in.injection_place = "Path"
            /\ ~Contains(InputPath, PctS)
            /\ ~Contains(InputPath, <<"?">>)
            /\ defaults.joiner = Amp) =>
              defaults.path = InputPath \o <<"?", "%", "s">> /\ defaults.body = t_in.body
        /\ (\/ t_in.injection_place = "Body" /\ Contains(t_in.body, PctS)
            \/ t_in.injection_place = "Path" /\ Contains(InputPath, PctS)) =>
              defaults.path = InputPath /\ defaults.body = t_in.body

\* C10 as stated: with no DataType given, for Body and for Path injection a
\* body beginning with `{` selects JSON and any other body Urlencoded;
\* HeaderValue and Headers get their defaults.
C10_InferenceFromBody ==
    (Built /\ Inferred) =>
        /\ t_in.injection_place \in {"Body", "Path"} =>
              IF StartsWith(t_in.body, <<"{">>) THEN IsJsonFormat ELSE IsUrlencodedFormat
        /\ HeaderDefaults

\* C10 amended: with no DataType given, Body injection selects JSON when the
\* body begins with `{` and Urlencoded otherwise; Path injection always
\* selects Urlencoded, whatever the body is; HeaderValue defaults to
\* `{k}={v}` with joiner `;`, Headers to an empty template and joiner.
C10_FormatInference ==
    (Built /\ Inferred) =>
        /\ t_in.injection_place = "Body" =>
              IF StartsWith(t_in.body, <<"{">>) THEN IsJsonFormat ELSE IsUrlencodedFormat
        /\ t_in.injection_place = "Path" => IsUrlencodedFormat
        /\ HeaderDefaults

\* C10 witness: Path injection over a body that begins with `{`, inferred Urlencoded
C10_Witness ==
    /\ Built /\ Inferred
    /\ t_in.injection_place = "Path"
    /\ StartsWith(t_in.body, <<"{">>)
    /\ IsUrlencodedFormat

\* C15: for Path injection where the path has a `?` and no `%s`, sentinel
\* insertion keeps the path and its query as a prefix of the result and puts
\* joiner + `%s` after the query: the template's path is path + joiner + `%s`,
\* and the body is unchanged.
C15_SentinelAfterQuery ==
    (/\ Built
     /\ t_in.injection_place = "Path"
     /\ Contains(t_in.url, <<"?">>)
     /\ ~Contains(t_in.url, PctS)) =>
        /\ defaults.path = t_in.url \o defaults.joiner \o PctS
        /\ defaults.body = t_in.body

-----------------------------------------------------------------------------
(* Request *)

RandomTag == <<"{", "{", "r", "a", "n", "d", "o", "m", "}", "}">>      \* "{{random}}"
FixedSep == <<"%", "=", "%">>                                           \* "%=%"
ContentType == <<"C", "o", "n", "t", "e", "n", "t", "-", "T", "y", "p", "e">>
ApplicationJson == <<"j", "s", "o", "n">>               \* "application/json", shortened
ApplicationForm == <<"f", "o", "r", "m">>               \* "application/x-www-form-urlencoded", shortened
UserAgent == <<<<"U", "A">>, <<"M", "o", "z">>>>        \* ("User-Agent", "Mozilla/5.0 ..."), shortened

\* utils::random_line(n): some string of n characters
random_line(n) == {[i \in 1..n |-> c] : c \in {"u", "w", "z"}}

\* HashMap insert / FromIterator: a later entry replaces an earlier one with the same key
EmptyMap == [k \in {} |-> <<>>]
MapInsert(m, k, v) == [x \in (DOMAIN m) \cup {k} |-> IF x = k THEN v ELSE m[x]]
MapExtend(m, n) == [x \in (DOMAIN m) \cup (DOMAIN n) |-> IF x \in DOMAIN n THEN n[x] ELSE m[x]]

\* the orders in which a HashMap with key set S may be iterated
IterationOrders(S) ==
    {o \in [1..Cardinality(S) -> S] : \A i, j \in 1..Cardinality(S) : i # j => o[i] # o[j]}

\* str::split(sep).collect(): the pieces between the non-overlapping matches
RECURSIVE SplitFrom(_, _, _, _)
SplitFrom(s, sep, i, piece) ==
    IF i > Len(s) THEN <<piece>>
    ELSE IF IsMatchAt(s, sep, i) THEN <<piece>> \o SplitFrom(s, sep, i + Len(sep), <<>>)
    ELSE SplitFrom(s, sep, i + 1, Append(piece, s[i]))

Split(s, sep) == SplitFrom(s, sep, 1, <<>>)

\* Headers::contains_key on a Vec<(String, String)>
HeadersContainKey(headers, key) == \E i \in 1..Len(headers) : headers[i][1] = key

\* Request::new(defaults, parameters)
NewRequest(l, parameters) ==
    [path |-> l.path,
     headers |-> <<UserAgent>> \o l.custom_headers,
     parameters |-> parameters,
     prepared_parameters |-> EmptyMap,
     non_random_parameters |-> EmptyMap,
     body |-> <<>>,
     prepared |-> FALSE]

\* utf8_percent_encode(query, FRAGMENT), on the characters that occur in queries
EncodeChar(c) ==
    CASE c = " " -> <<"%", "2", "0">>
      [] c = "\"" -> <<"%", "2", "2">>
      [] c = "<" -> <<"%", "3", "C">>
      [] c = ">" -> <<"%", "3", "E">>
      [] c = "&" -> <<"%", "2", "6">>
      [] c = "#" -> <<"%", "2", "3">>
      [] c = ";" -> <<"%", "3", "B">>
      [] c = "/" -> <<"%", "2", "F">>
      [] c = "=" -> <<"%", "3", "D">>
      [] c = "%" -> <<"%", "2", "5">>
      [] OTHER -> <<c>>

RECURSIVE PercentEncode(_)
PercentEncode(s) == IF s = <<>> THEN <<>> ELSE EncodeChar(Head(s)) \o PercentEncode(Tail(s))

RECURSIVE Join(_, _)
Join(strs, joiner) ==
    IF strs = <<>> THEN <<>>
    ELSE IF Len(strs) = 1 THEN strs[1]
    ELSE strs[1] \o joiner \o Join(Tail(strs), joiner)

\* Request::make_query, the prepared parameters being iterated in `order`
make_query(l, prepared_parameters, order) ==
    LET rendered == [i \in 1..Len(order) |->
                        Replace(Replace(l.template, <<"{", "k", "}">>, order[i]),
                                <<"{", "v", "}">>, prepared_parameters[order[i]])]
        query == Join(rendered, l.joiner)
    IN  IF l.encode THEN PercentEncode(query) ELSE query

\* lines 322-328: the parameters that carry `%=%`, split by it
RECURSIVE NonRandomParameters(_)
NonRandomParameters(parameters) ==
    IF parameters = <<>> THEN EmptyMap
    ELSE LET x == parameters[Len(parameters)]
             before == NonRandomParameters(Pop(parameters))
             pieces == Split(x, FixedSep)
         IN  IF Contains(x, FixedSep)
             THEN MapInsert(before, pieces[1], IF Len(pieces) >= 2 THEN pieces[2] ELSE <<>>)
             ELSE before

\* parameters chained with the additional one (the empty string when there is none)
Chained(parameters, additional_param) ==
    Append(parameters, IF additional_param = NoStr THEN <<>> ELSE additional_param)

\* positions of the chain that pass the filter of line 334 and get a random value
RandomPositions(chain) ==
    {i \in 1..Len(chain) : chain[i] # <<>> /\ ~Contains(chain[i], FixedSep)}

\* lines 330-335: the filtered chain, each name with its own random_line(5)
RECURSIVE RandomParameters(_, _, _)
RandomParameters(chain, values, n) ==
    IF n = 0 THEN EmptyMap
    ELSE IF n \in RandomPositions(chain)
         THEN MapInsert(RandomParameters(chain, values, n - 1), chain[n], values[n])
         ELSE RandomParameters(chain, values, n - 1)

\* lines 330-342
PreparedParameters(parameters, additional_param, values) ==
    LET chain == Chained(parameters, additional_param)
    IN  MapExtend(RandomParameters(chain, values, Len(chain)), NonRandomParameters(parameters))

\* lines 377-378: parameters.iter().map(|x| (x, random_line(5))).collect::<HashMap>()
RECURSIVE ParameterHeaders(_, _)
ParameterHeaders(parameters, values) ==
    IF parameters = <<>> THEN EmptyMap
    ELSE MapInsert(ParameterHeaders(Pop(parameters), values),
                   parameters[Len(parameters)], values[Len(parameters)])

\* Request::prepare that forgets the `prepared` flag and materializes again
prepare_without_flag(r, l, additional_param, rnd) ==
    LET prepared_parameters == PreparedParameters(r.parameters, additional_param, rnd.params)
        query == make_query(l, prepared_parameters, rnd.order)
        n == Len(l.custom_headers)
        random_headers ==
            IF l.injection_place # "HeaderValue"
            THEN [i \in 1..n |-> <<l.custom_headers[i][1],
                                   Replace(l.custom_headers[i][2], RandomTag, rnd.headers[i])>>]
            ELSE <<>>
        path == Replace(l.path, RandomTag, rnd.path)
        body == Replace(l.body, RandomTag, rnd.body)
        parameter_headers == ParameterHeaders(r.parameters, rnd.header_params)
    IN  [r EXCEPT
          !.prepared = TRUE,
          !.non_random_parameters = NonRandomParameters(r.parameters),
          !.prepared_parameters = prepared_parameters,
          !.path = IF l.injection_place = "Path" THEN Replace(path, PctS, query) ELSE path,
          !.body = IF l.injection_place = "Body" THEN Replace(body, PctS, query) ELSE body,
          !.headers =
              r.headers \o random_headers \o
              (CASE l.injection_place = "Path" -> <<>>
                 [] l.injection_place = "Body" ->
                      IF ~HeadersContainKey(l.custom_headers, ContentType)
                      THEN IF l.is_json THEN <<<<ContentType, ApplicationJson>>>>
                           ELSE <<<<ContentType, ApplicationForm>>>>
                      ELSE <<>>
                 [] l.injection_place = "HeaderValue" ->
                      [i \in 1..n |-> <<l.custom_headers[i][1],
                                        Replace(Replace(l.custom_headers[i][2], RandomTag, rnd.header_values[i]),
                                                PctS, query)>>]
                 [] l.injection_place = "Headers" ->
                      [i \in 1..Len(rnd.header_order) |->
                          <<rnd.header_order[i], parameter_headers[rnd.header_order[i]]>>])]

\* Request::prepare(additional_param); rnd holds the values random_line returns
\* and the iteration orders of the two hash maps
prepare(r, l, additional_param, rnd) ==
    IF r.prepared THEN r
    ELSE LET prepared_parameters == PreparedParameters(r.parameters, additional_param, rnd.params)
             query == make_query(l, prepared_parameters, rnd.order)
             n == Len(l.custom_headers)
             random_headers ==
                 IF l.injection_place # "HeaderValue"
                 THEN [i \in 1..n |-> <<l.custom_headers[i][1],
                                        Replace(l.custom_headers[i][2], RandomTag, rnd.headers[i])>>]
                 ELSE <<>>
             path == Replace(l.path, RandomTag, rnd.path)
             body == Replace(l.body, RandomTag, rnd.body)
             parameter_headers == ParameterHeaders(r.parameters, rnd.header_params)
         IN  [r EXCEPT
               !.prepared = TRUE,
               !.non_random_parameters = NonRandomParameters(r.parameters),
               !.prepared_parameters = prepared_parameters,
               !.path = IF l.injection_place = "Path" THEN Replace(path, PctS, query) ELSE path,
               !.body = IF l.injection_place = "Body" THEN Replace(body, PctS, query) ELSE body,
               !.headers =
                   r.headers \o random_headers \o
                   (CASE l.injection_place = "Path" -> <<>>
                      [] l.injection_place = "Body" ->
                           IF ~HeadersContainKey(l.custom_headers, ContentType)
                           THEN IF l.is_json THEN <<<<ContentType, ApplicationJson>>>>
                                ELSE <<<<ContentType, ApplicationForm>>>>
                           ELSE <<>>
                      [] l.injection_place = "HeaderValue" ->
                           [i \in 1..n |-> <<l.custom_headers[i][1],
                                             Replace(Replace(l.custom_headers[i][2], RandomTag, rnd.header_values[i]),
                                                     PctS, query)>>]
                      [] l.injection_place = "Headers" ->
                           [i \in 1..Len(rnd.header_order) |->
                               <<rnd.header_order[i], parameter_headers[rnd.header_order[i]]>>])]

\* what one prepare() call may draw: a random_line(5) at each sampling site,
\* and an iteration order for each hash map it walks. A value that cannot show
\* (the call returns at once, the field has no `{{random}}`) is drawn once.
RandomDraws(r, l, additional_param) ==
    LET chain == Chained(r.parameters, additional_param)
        some == CHOOSE v \in random_line(5) : TRUE
        lines == IF r.prepared THEN {some} ELSE random_line(5)
        orders(S) == IF r.prepared THEN {CHOOSE o \in IterationOrders(S) : TRUE}
                     ELSE IterationOrders(S)
        keys == DOMAIN PreparedParameters(r.parameters, additional_param,
                                          [i \in RandomPositions(chain) |-> some])
        names == {r.parameters[i] : i \in 1..Len(r.parameters)}
        n == Len(l.custom_headers)
        place == l.injection_place
    IN  [params : [RandomPositions(chain) -> lines],
         order : IF place \in {"Path", "Body", "HeaderValue"} THEN orders(keys) ELSE {<<>>},
         headers : [(IF place # "HeaderValue" THEN 1..n ELSE {}) -> lines],
         path : IF Contains(l.path, RandomTag) THEN lines ELSE {some},
         body : IF Contains(l.body, RandomTag) THEN lines ELSE {some},
         header_values : [(IF place = "HeaderValue" THEN 1..n ELSE {}) -> lines],
         header_params : [(IF place = "Headers" THEN 1..Len(r.parameters) ELSE {}) -> lines],
         header_order : IF place = "Headers" THEN orders(names) ELSE {<<>>}]

-----------------------------------------------------------------------------
(* Response: reflection counting and analysis *)

UsizeModulus == 65536     \* usize::MAX + 1 (a 16-bit usize; wider ones wrap the same way)

\* str::to_lowercase, on the characters that occur in response texts
RECURSIVE ToLowercase(_)
ToLowercase(s) ==
    IF s = <<>> THEN <<>>
    ELSE <<(CASE Head(s) = "U" -> "u" [] Head(s) = "W" -> "w" [] OTHER -> Head(s))>>
            \o ToLowercase(Tail(s))

\* Response::count that forgets to lowercase the text
count_case_sensitive(text, string) == MatchesCount(text, string)

\* Response::count
count(text, string) == MatchesCount(ToLowercase(text), string)

\* Response::beautify_body for a response that is not JSON (no content-type
\* header, body not enclosed in braces)
beautify_body(text) == Replace(text, <<">">>, <<">", "\n">>)

\* Response::add_headers for a response without headers
add_headers(text) == <<"\n">> \o text

\* the prepared parameters fill_reflected_parameters walks (lines 669-679)
CountedParameters(r) ==
    IF DOMAIN r.non_random_parameters # {}
    THEN (DOMAIN r.prepared_parameters) \ (DOMAIN r.non_random_parameters)
    ELSE DOMAIN r.prepared_parameters

BaselineCount(l, v) ==
    IF l.initial_response # <<>> THEN count(l.initial_response[1].text, v) ELSE 0

\* fill_reflected_parameters that also walks the non-random parameters
fill_with_non_random(this, l, overflow_checks) ==
    LET r == this.request
        keys == DOMAIN r.prepared_parameters
        mine(k) == count(this.text, r.prepared_parameters[k])
        base(k) == BaselineCount(l, r.prepared_parameters[k])
        new_count(k) == (mine(k) - base(k)) % UsizeModulus
        found == {k \in keys : l.amount_of_reflections # new_count(k)}
    IN  IF overflow_checks /\ \E k \in keys : mine(k) < base(k)
        THEN <<>>
        ELSE <<[this EXCEPT !.reflected_parameters =
                    MapExtend(this.reflected_parameters, [k \in found |-> new_count(k)])]>>

\* Response::fill_reflected_parameters. `self.count(v) - baseline.count(v)` is
\* a usize subtraction: when it underflows the call panics in a build with
\* overflow checks (no response is left: <<>>) and wraps in one without.
fill_reflected_parameters(this, l, overflow_checks) ==
    LET r == this.request
        keys == CountedParameters(r)
        mine(k) == count(this.text, r.prepared_parameters[k])
        base(k) == BaselineCount(l, r.prepared_parameters[k])
        new_count(k) == (mine(k) - base(k)) % UsizeModulus
        found == {k \in keys : l.amount_of_reflections # new_count(k)}
    IN  IF overflow_checks /\ \E k \in keys : mine(k) < base(k)
        THEN <<>>
        ELSE <<[this EXCEPT !.reflected_parameters =
                    MapExtend(this.reflected_parameters, [k \in found |-> new_count(k)])]>>

Returned(name, recheck) == [name |-> name, recheck |-> recheck]

\* proceed_reflected_parameters that takes the first of two reflected names
\* without filtering the additional parameter out
proceed_without_filter(this) ==
    LET reflected == this.reflected_parameters
        names == DOMAIN reflected
        group(n) == {k \in names : reflected[k] = n}
        amounts == {reflected[k] : k \in names}
    IN  IF names = {} THEN {Returned(NoStr, FALSE)}
        ELSE IF Cardinality(names) = 1 THEN {Returned(k, FALSE) : k \in names}
        ELSE IF Cardinality(DOMAIN this.request.prepared_parameters) = 2 /\ Cardinality(names) = 2
        THEN {Returned(k, FALSE) : k \in names}
        ELSE IF Cardinality(amounts) = 2 /\ \E n \in amounts : Cardinality(group(n)) = 1
        THEN {Returned(k, TRUE) : k \in {x \in names : Cardinality(group(reflected[x])) = 1}}
        ELSE {Returned(NoStr, TRUE)}

\* Response::proceed_reflected_parameters: the values it may return, one for
\* each order in which the hash maps may be iterated
proceed_reflected_parameters(this) ==
    LET reflected == this.reflected_parameters
        names == DOMAIN reflected
        group(n) == {k \in names : reflected[k] = n}
        amounts == {reflected[k] : k \in names}
    IN  IF names = {} THEN {Returned(NoStr, FALSE)}
        ELSE IF Cardinality(names) = 1 THEN {Returned(k, FALSE) : k \in names}
        ELSE IF Cardinality(DOMAIN this.request.prepared_parameters) = 2 /\ Cardinality(names) = 2
        THEN {Returned(k, FALSE) : k \in {x \in names : x # this.additional_parameter}}
        ELSE IF Cardinality(amounts) = 2 /\ \E n \in amounts : Cardinality(group(n)) = 1
        THEN {Returned(k, TRUE) : k \in {x \in names : Cardinality(group(reflected[x])) = 1}}
        ELSE {Returned(NoStr, TRUE)}

\* Request::empty_response that makes up a reflection of the first parameter
empty_response_with_reflection(r, l, rnd) ==
    LET request == prepare(r, l, NoStr, rnd)
    IN  [code |-> 0, headers |-> <<>>, text |-> <<>>,
         reflected_parameters |-> [k \in DOMAIN request.prepared_parameters |-> 0],
         additional_parameter |-> <<>>,
         request |-> request]

\* Request::empty_response
empty_response(r, l, rnd) ==
    [code |-> 0, headers |-> <<>>, text |-> <<>>,
     reflected_parameters |-> EmptyMap,
     additional_parameter |-> <<>>,
     request |-> prepare(r, l, NoStr, rnd)]

\* the Response request() builds at lines 444-452 and passes through
\* beautify_body and add_headers, before fill_reflected_parameters
ResponseOf(r, code, body, additional_parameter) ==
    [code |-> code, headers |-> <<>>, text |-> add_headers(beautify_body(body)),
     reflected_parameters |-> EmptyMap,
     additional_parameter |-> additional_parameter,
     request |-> r]

-----------------------------------------------------------------------------
(* Operations on a request and its response *)

A == <<"a">>
B == <<"b">>
AFixed == <<"a", "%", "=", "%", "1">>                   \* a%=%1
BFixedTwice == <<"b", "%", "=", "%", "1", "%", "=", "%", "2">>   \* b%=%1%=%2
Candidates == {A, B, AFixed}
\* candidates prepare() splits at a second separator or drops as empty
OddCandidates == {BFixedTwice, <<>>}
\* the lists requests are built from hold no candidate twice, and at most one
\* odd candidate, in a list that is shorter than the longest ones
ParameterLists ==
    {p \in SeqsUpTo(Candidates \cup OddCandidates, MaxParams) :
        /\ \A i, j \in 1..Len(p) : p[i] = p[j] => i = j
        /\ LET odd == {i \in 1..Len(p) : p[i] \in OddCandidates}
           IN  Cardinality(odd) <= 1 /\ (odd # {} => Len(p) < MaxParams)}

\* Request::prepare(additional_param), as the tests call it
Prepare ==
    /\ calls < MaxCalls
    /\ resp = <<>>
    /\ \E additional_param \in {NoStr} \cup random_line(7) :
         \E rnd \in RandomDraws(req, defaults, additional_param) :
            req' = prepare(req, defaults, additional_param, rnd)
    /\ calls' = calls + 1
    /\ UNCHANGED <<resp, result, panicked, tvars, cvars, svars>>

\* Request::print(): prepare(Some(random_line(5))); the string it returns is not kept
print_request ==
    /\ calls < MaxCalls
    /\ resp = <<>>
    /\ \E additional_param \in random_line(5) :
         \E rnd \in RandomDraws(req, defaults, additional_param) :
            req' = prepare(req, defaults, additional_param, rnd)
    /\ calls' = calls + 1
    /\ UNCHANGED <<resp, result, panicked, tvars, cvars, svars>>

\* send_by() returned Err: both request() calls prepared and sent clones
\* (`self.clone().request(..)`), the request itself is as it was
RequestErr ==
    /\ calls < MaxCalls
    /\ resp = <<>>
    /\ calls' = calls + 1
    /\ UNCHANGED <<req, resp, result, panicked, tvars, cvars, svars>>

\* Request::empty_response(): the request moves into the response
EmptyResponse ==
    /\ calls < MaxCalls
    /\ resp = <<>>
    /\ \E rnd \in RandomDraws(req, defaults, NoStr) :
         /\ resp' = <<empty_response(req, defaults, rnd)>>
         /\ req' = resp'[1].request
    /\ calls' = calls + 1
    /\ UNCHANGED <<result, panicked, tvars, cvars, svars>>

\* response.fill_reflected_parameters(), in a build with or without overflow checks
FillReflectedParameters ==
    /\ calls < MaxCalls
    /\ resp # <<>>
    /\ \E overflow_checks \in BOOLEAN :
         /\ resp' = fill_reflected_parameters(resp[1], defaults, overflow_checks)
         /\ panicked' = (resp' = <<>>)
    /\ calls' = calls + 1
    /\ UNCHANGED <<req, result, tvars, cvars, svars>>

\* response.proceed_reflected_parameters()
ProceedReflectedParameters ==
    /\ calls < MaxCalls
    /\ resp # <<>>
    /\ \E returned \in proceed_reflected_parameters(resp[1]) : result' = <<returned>>
    /\ calls' = calls + 1
    /\ UNCHANGED <<req, resp, panicked, tvars, cvars, svars>>

\* arguments of RequestDefaults::new for the templates requests are built on
RequestInput(place, body, headers, encode) ==
    [injection_place |-> place, data_type |-> None, template |-> NoStr, joiner |-> NoStr,
     url |-> <<"/">>, body |-> body, custom_headers |-> headers, encode |-> encode]

RequestInputs ==
    {RequestInput("Path", <<>>, <<>>, FALSE),
     RequestInput("Path", <<>>, <<XHeader>>, TRUE),
     RequestInput("Body", <<"r">> \o RandomTag \o RandomTag, <<>>, FALSE),
     RequestInput("Body", <<"{", "}">>, <<<<ContentType, <<"x">>>>>>, FALSE),
     RequestInput("HeaderValue", <<>>, <<<<<<"X">>, RandomTag \o PctS>>>>, FALSE),
     RequestInput("Headers", <<>>, <<XHeader>>, FALSE)}

\* response bodies: pieces that are a random value, a random value in upper
\* case, or the fixed value of a%=%1 closing a tag; counting the occurrences
\* of a value does not depend on the order of the pieces
U5 == [i \in 1..5 |-> "u"]
W5 == [i \in 1..5 |-> "w"]
Pieces == <<U5, W5, [i \in 1..5 |-> "z"], [i \in 1..5 |-> "U"], <<"1", ">">>>>
ResponseBodies ==
    {Concat([i \in 1..Len(p) |-> Pieces[p[i]]]) :
        p \in {q \in SeqsUpTo(1..Len(Pieces), MaxText) :
                    \A i \in 1..(Len(q) - 1) : q[i] <= q[i + 1]}}
\* defaults.initial_response: not set, or the baseline response (its code and text)
Baselines ==
    {<<>>} \cup {<<[code |-> 200, text |-> add_headers(beautify_body(b))]>> : b \in {<<>>, U5}}
\* batches: each candidate at most once, in one order
Batches ==
    LET rank(x) == IF x = A THEN 1 ELSE IF x = B THEN 2 ELSE 3
    IN  {p \in SeqsUpTo({A, B, AFixed}, MaxParams) :
            \A i \in 1..(Len(p) - 1) : rank(p[i]) < rank(p[i + 1])}

\* the responses request() builds on `l` for a batch: the request prepared by
\* request() itself, or by print() before it (then its sentinel is not the
\* response's additional parameter); the names got different random values
\* and the query is built in one iteration order
BuiltResponses(l) ==
    LET sentinel5 == U5
        sentinel7 == [i \in 1..7 |-> "u"]
        new_request(parameters) == NewRequest(l, parameters)
        draws(r, additional) ==
            {d \in RandomDraws(r, l, additional) :
                /\ \A i, j \in DOMAIN d.params :
                      (d.params[i] = d.params[j]) <=>
                          (Chained(r.parameters, additional)[i] = Chained(r.parameters, additional)[j])
                /\ d.order = CHOOSE o \in IterationOrders(
                                 DOMAIN PreparedParameters(r.parameters, additional, d.params)) : TRUE}
        printed(parameters) ==
            {prepare(new_request(parameters), l, sentinel5, d) :
                d \in draws(new_request(parameters), sentinel5)}
        sent(parameters) ==
            {prepare(new_request(parameters), l, sentinel7, d) :
                d \in draws(new_request(parameters), sentinel7)}
    IN  {ResponseOf(r, 200, body, sentinel7) :
            r \in UNION {printed(parameters) \cup sent(parameters) : parameters \in Batches},
            body \in ResponseBodies}

NoRequest == NewRequest(NoTemplate, <<>>)
RequestIdle == req = NoRequest /\ resp = <<>> /\ result = <<>> /\ panicked = FALSE /\ calls = 0

-----------------------------------------------------------------------------
(* Response::compare *)

\* byte values of the characters that occur in diff lines (Vec<String>::sort order)
CharCode(c) ==
    CASE c = " " -> 32 [] c = "(" -> 40 [] c = ")" -> 41
      [] c = "0" -> 48 [] c = "1" -> 49 [] c = "2" -> 50 [] c = "3" -> 51 [] c = "4" -> 52
      [] c = "5" -> 53 [] c = "6" -> 54 [] c = "7" -> 55 [] c = "8" -> 56 [] c = "9" -> 57
      [] c = "x" -> 120 [] c = "y" -> 121

RECURSIVE StrLess(_, _)
StrLess(a, b) ==
    IF b = <<>> THEN FALSE
    ELSE IF a = <<>> THEN TRUE
    ELSE IF Head(a) = Head(b) THEN StrLess(Tail(a), Tail(b))
    ELSE CharCode(Head(a)) < CharCode(Head(b))

RECURSIVE InsertSorted(_, _)
InsertSorted(sorted, x) ==
    IF sorted = <<>> THEN <<x>>
    ELSE IF StrLess(x, Head(sorted)) THEN <<x>> \o sorted
    ELSE <<Head(sorted)>> \o InsertSorted(Tail(sorted), x)

RECURSIVE Sort(_)
Sort(v) == IF v = <<>> THEN <<>> ELSE InsertSorted(Sort(Pop(v)), v[Len(v)])

VecContains(v, x) == \E i \in 1..Len(v) : v[i] = x

Digit(d) == <<"0", "1", "2", "3", "4", "5", "6", "7", "8", "9">>[d + 1]

\* usize::to_string
RECURSIVE to_string(_)
to_string(n) == IF n < 10 THEN <<Digit(n)>> ELSE to_string(n \div 10) \o <<Digit(n % 10)>>

\* while diffs.contains(&[&diff, "(", &c.to_string(), ")"].concat()) { c += 1 }
RECURSIVE TagNumber(_, _, _)
TagNumber(diffs, diff, c) ==
    IF VecContains(diffs, diff \o <<"(">> \o to_string(c) \o <<")">>)
    THEN TagNumber(diffs, diff, c + 1)
    ELSE c

\* body of compare's for loop that pushes the line even when old_diffs has it
push_diff_ignoring_old(diffs, old_diffs, diff) ==
    IF ~VecContains(diffs, diff)
    THEN Append(diffs, diff)
    ELSE IF ~VecContains(old_diffs, diff)
    THEN Append(diffs, diff \o <<" ", "(">> \o to_string(TagNumber(diffs, diff, 1)) \o <<")">>)
    ELSE diffs

\* body of compare's for loop, for one line of the oracle
push_diff(diffs, old_diffs, diff) ==
    IF ~VecContains(diffs, diff) /\ ~VecContains(old_diffs, diff)
    THEN Append(diffs, diff)
    ELSE IF ~VecContains(old_diffs, diff)
    THEN Append(diffs, diff \o <<" ", "(">> \o to_string(TagNumber(diffs, diff, 1)) \o <<")">>)
    ELSE diffs

RECURSIVE push_all(_, _, _)
push_all(diffs, old_diffs, lines) ==
    IF lines = <<>> THEN diffs
    ELSE push_all(push_diff(diffs, old_diffs, Head(lines)), old_diffs, Tail(lines))

\* Response::compare(&self, old_diffs): Err when the oracle fails, else Ok((is_code_diff, diffs))
compare(this, old_diffs) ==
    IF ~this.oracle.ok
    THEN [ok |-> FALSE, is_code_diff |-> FALSE, diffs |-> <<>>]
    ELSE [ok |-> TRUE,
          is_code_diff |-> this.base_code # this.code,
          diffs |-> Sort(push_all(<<>>, old_diffs, this.oracle.lines))]

\* lines the oracle may return: two plain lines and two that look like tagged ones
X == <<"x">>
DiffLines == {X, <<"y">>, <<"x", " ", "(", "1", ")">>, <<"x", "(", "1", ")">>}

\* crate::diff::diff(this.print(), baseline.print()): some list of lines, or an error
DiffOracle ==
    {[ok |-> TRUE, lines |-> l] : l \in SeqsUpTo(DiffLines, MaxDiffLines)}
        \cup {[ok |-> FALSE, lines |-> <<>>]}

Codes == {200, 404}
\* the baseline's status code: compare only tests the two codes for equality
BaseCodes == {200}
OldDiffs == SeqsUpTo(DiffLines, MaxOldDiffs)

NoCompared == [code |-> 0, base_code |-> 0, oracle |-> [ok |-> FALSE, lines |-> <<>>]]
CompareIdle == c_resp = NoCompared /\ c_hist = <<>>

Last == c_hist[Len(c_hist)]

\* old_diffs a caller passes: any list; after a call also the diffs just
\* returned, or the previous old_diffs extended by them
CallerOldDiffs ==
    OldDiffs \cup
    (IF c_hist # <<>> /\ Last.out.ok THEN {Last.out.diffs, Last.old \o Last.out.diffs} ELSE {})

\* response.compare(&old_diffs)
Compare ==
    /\ Len(c_hist) < MaxCompare
    /\ \E old \in CallerOldDiffs :
        c_hist' = Append(c_hist, [old |-> old, out |-> compare(c_resp, old)])
    /\ UNCHANGED <<c_resp, tvars, rvars, svars>>


-----------------------------------------------------------------------------
(* Properties of compare (SpecCompare) *)

Successive == {i \in 1..(Len(c_hist) - 1) : c_hist[i].out.ok}
CodeDiffRight == \A i \in 1..Len(c_hist) :
    c_hist[i].out.ok => (c_hist[i].out.is_code_diff <=> c_resp.code # c_resp.base_code)

\* C6 as stated: if D is the diff vector compare(old_diffs) returned, for any
\* old_diffs, then compare with old_diffs = D on the same response returns an
\* empty diff vector; is_code_diff is (this.code != baseline.code) in both calls.
C6_RoundTripAnyOld ==
    /\ \A i \in Successive :
          c_hist[i + 1].old = c_hist[i].out.diffs => c_hist[i + 1].out.diffs = <<>>
    /\ CodeDiffRight

\* C6 amended: if D is the diff vector compare(old_diffs) returned, then
\* compare on the same response with old_diffs extended by D (old_diffs = D
\* when the first call had an empty old_diffs) returns an empty diff vector;
\* is_code_diff is (this.code != baseline.code) in every call.
C6_RoundTrip ==
    /\ \A i \in Successive :
          c_hist[i + 1].old = c_hist[i].old \o c_hist[i].out.diffs => c_hist[i + 1].out.diffs = <<>>
    /\ CodeDiffRight

\* C6 witness: a first compare returned diffs, one of them tagged, the codes
\* differ, and the second compare got the extended old_diffs
C6_Witness ==
    /\ Len(c_hist) = 2
    /\ c_hist[1].out.ok
    /\ c_hist[1].old # <<>>
    /\ Len(c_hist[1].out.diffs) >= 2
    /\ c_resp.code # c_resp.base_code
    /\ c_hist[2].old = c_hist[1].old \o c_hist[1].out.diffs
    /\ c_hist[2].out.diffs = <<>>

\* C7: every entry of the diff vector compare returns is fresh: the entries
\* are pairwise distinct and none is a member of old_diffs.
C7_FreshEntries ==
    \A i \in 1..Len(c_hist) :
        LET d == c_hist[i].out.diffs
        IN  /\ \A j, k \in 1..Len(d) : j # k => d[j] # d[k]
            /\ \A j \in 1..Len(d) : ~VecContains(c_hist[i].old, d[j])

-----------------------------------------------------------------------------
(* Properties of a request and its response (SpecRequest, SpecResponse) *)

Materialized(r) ==
    <<r.path, r.body, r.headers, r.prepared_parameters, r.non_random_parameters>>

\* C1: prepare is idempotent: once a request is prepared, no later call of
\* prepare (made directly, by print(), by request() or by empty_response(),
\* with any additional parameter) changes its materialized path, body,
\* headers, prepared parameters or non-random parameters.
C1_PrepareIdempotent ==
    [][req.prepared => (req'.prepared /\ Materialized(req') = Materialized(req))]_vars

\* C1 witness: a second operation that calls prepare has run on a prepared
\* request that holds random values and the query
C1_Witness ==
    /\ calls >= 2
    /\ resp = <<>>
    /\ req.prepared
    /\ A \in DOMAIN req.prepared_parameters
    /\ Cardinality(DOMAIN req.prepared_parameters) >= 2
    /\ req.path # defaults.path

\* the name of a candidate: the text before `%=%` when it has one
NameOf(x) == IF Contains(x, FixedSep) THEN Split(x, FixedSep)[1] ELSE x
CandidateNames(parameters) ==
    {NameOf(parameters[i]) : i \in {j \in 1..Len(parameters) : parameters[j] # <<>>}}

\* C3: empty_response() yields a Response with code 0, empty text, headers,
\* additional_parameter and reflected_parameters, whose request is prepared
\* and whose prepared parameters contain every non-empty candidate name of
\* the batch; it adds no sentinel (on a request not prepared before, the
\* prepared names are exactly the candidate names); and
\* proceed_reflected_parameters on it returns (None, false).
C3_EmptyResponse ==
    /\ [](resp # <<>> =>
            /\ resp[1].code = 0
            /\ resp[1].text = <<>>
            /\ resp[1].headers = <<>>
            /\ resp[1].additional_parameter = <<>>
            /\ DOMAIN resp[1].reflected_parameters = {}
            /\ resp[1].request.prepared
            /\ CandidateNames(resp[1].request.parameters)
                   \subseteq DOMAIN resp[1].request.prepared_parameters
            /\ result # <<>> => result[1] = Returned(NoStr, FALSE))
    /\ [][(resp = <<>> /\ resp' # <<>> /\ ~req.prepared) =>
            DOMAIN resp'[1].request.prepared_parameters = CandidateNames(req.parameters)]_vars

\* C3 witness: an empty response made of a batch with a random and a fixed
\* candidate, analysed by proceed_reflected_parameters
C3_Witness ==
    /\ resp # <<>>
    /\ result # <<>>
    /\ resp[1].code = 0
    /\ DOMAIN resp[1].request.prepared_parameters = {A, B}
    /\ DOMAIN resp[1].request.non_random_parameters = {A}

\* delta(n) = count_in_this(value_n) - count_in_baseline(value_n)
Delta(this, l, n) ==
    count(this.text, this.request.prepared_parameters[n])
        - BaselineCount(l, this.request.prepared_parameters[n])

\* C4: after fill_reflected_parameters, reflected_parameters contains exactly
\* the names n of the prepared parameters that are not in the non-random set
\* and whose delta(n) differs from amount_of_reflections, each mapped to that
\* delta; a name given as `name%=%value` is never recorded.
C4_ReflectedExactly ==
    [][FillReflectedParameters =>
        /\ resp' # <<>>
        /\ LET this == resp[1]
               r == this.request
               reflected == resp'[1].reflected_parameters
           IN  /\ DOMAIN reflected =
                     {n \in (DOMAIN r.prepared_parameters) \ (DOMAIN r.non_random_parameters) :
                         Delta(this, defaults, n) # defaults.amount_of_reflections}
               /\ \A n \in DOMAIN reflected : reflected[n] = Delta(this, defaults, n)
               /\ \A i \in 1..Len(r.parameters) :
                     Contains(r.parameters[i], FixedSep) =>
                         NameOf(r.parameters[i]) \notin DOMAIN reflected]_vars

\* the decision table of the analyzer, for the response analysed and the value returned
DecisionTable(this, returned) ==
    LET reflected == this.reflected_parameters
        names == DOMAIN reflected
        alone(n) == \A m \in names : reflected[m] = reflected[n] => m = n
        pair == Cardinality(DOMAIN this.request.prepared_parameters) = 2 /\ Cardinality(names) = 2
    IN  /\ names = {} => returned = Returned(NoStr, FALSE)
        /\ Cardinality(names) = 1 => (returned.name \in names /\ ~returned.recheck)
        /\ pair => /\ returned.name \in names
                   /\ returned.name # this.additional_parameter
                   /\ ~returned.recheck
        /\ (Cardinality(names) >= 2 /\ ~pair) =>
              IF Cardinality({reflected[n] : n \in names}) = 2 /\ \E n \in names : alone(n)
              THEN returned.name \in names /\ alone(returned.name) /\ returned.recheck
              ELSE returned = Returned(NoStr, TRUE)

C18_NoUnderflow ==
    [][FillReflectedParameters =>
        /\ \A k \in CountedParameters(resp[1].request) :
              count(resp[1].text, resp[1].request.prepared_parameters[k])
                  >= BaselineCount(defaults, resp[1].request.prepared_parameters[k])
        /\ ~panicked'
        /\ \A n \in CountedParameters(resp[1].request) \cap DOMAIN resp'[1].reflected_parameters :
              resp'[1].reflected_parameters[n] = Delta(resp[1], defaults, n)]_vars

\* the response was prepared by request(): its sentinel is among the prepared parameters
PreparedByRequest(this) ==
    this.additional_parameter \in DOMAIN this.request.prepared_parameters

\* C17: proceed_reflected_parameters never returns the sentinel: on a
\* response produced by request(), whatever the reflected_parameters map is,
\* the name returned, if any, is a candidate name of the batch and differs
\* from response.additional_parameter.
C17_SentinelNeverReturned ==
    [][(ProceedReflectedParameters /\ PreparedByRequest(resp[1]) /\ result'[1].name # NoStr) =>
          /\ result'[1].name \in CandidateNames(resp[1].request.parameters)
          /\ result'[1].name # resp[1].additional_parameter]_vars

\* the text of x after its first `%=%`
AfterFirstSep(x) ==
    LET i == CHOOSE k \in 1..Len(x) :
                 IsMatchAt(x, FixedSep, k) /\ \A j \in 1..(k - 1) : ~IsMatchAt(x, FixedSep, j)
    IN  SubSeq(x, i + Len(FixedSep), Len(x))

\* the first prepare() of a request
FirstPrepare == ~req.prepared /\ req'.prepared

\* C11: prepare() partitions the candidates: a candidate with `%=%` is split
\* at its first `%=%` into the name before it and the fixed value that is all
\* the text after it, stored in the non-random set and in the prepared
\* parameters; every other non-empty candidate, and the sentinel when one is
\* supplied, is mapped to a 5-character random value; there are no other
\* keys, and with additional_param = None (empty_response) there is no sentinel.
C11_Partition ==
    [][FirstPrepare =>
        LET r == req'
            fixed == {i \in 1..Len(r.parameters) : Contains(r.parameters[i], FixedSep)}
            random == {i \in 1..Len(r.parameters) :
                          r.parameters[i] # <<>> /\ ~Contains(r.parameters[i], FixedSep)}
            sentinels == (DOMAIN r.prepared_parameters) \ CandidateNames(r.parameters)
        IN  /\ \A i \in fixed :
                  LET name == NameOf(r.parameters[i])
                  IN  /\ name \in DOMAIN r.non_random_parameters
                      /\ r.non_random_parameters[name] = AfterFirstSep(r.parameters[i])
                      /\ name \in DOMAIN r.prepared_parameters
                      /\ r.prepared_parameters[name] = AfterFirstSep(r.parameters[i])
            /\ \A i \in random :
                  /\ r.parameters[i] \in DOMAIN r.prepared_parameters
                  /\ r.prepared_parameters[r.parameters[i]] \in random_line(5)
            /\ DOMAIN r.non_random_parameters = {NameOf(r.parameters[i]) : i \in fixed}
            /\ Cardinality(sentinels) <= 1
            /\ \A n \in sentinels :
                  /\ n \in random_line(5) \cup random_line(7)
                  /\ r.prepared_parameters[n] \in random_line(5)
            /\ resp' # <<>> => sentinels = {}]_vars

\* s with the k-th occurrence of `from` replaced by tos[k], each occurrence by its own value
RECURSIVE ReplaceEachFrom(_, _, _, _, _)
ReplaceEachFrom(s, from, tos, i, k) ==
    IF i > Len(s) THEN <<>>
    ELSE IF IsMatchAt(s, from, i)
         THEN tos[k] \o ReplaceEachFrom(s, from, tos, i + Len(from), k + 1)
         ELSE <<s[i]>> \o ReplaceEachFrom(s, from, tos, i + 1, k)
ReplaceEach(s, from, tos) == ReplaceEachFrom(s, from, tos, 1, 1)

\* C12: each occurrence of `{{random}}` is replaced by its own sample: for a
\* request on a template whose body holds `{{random}}` twice, prepare() can
\* materialize a body in which the two replacement values differ.
C12_OwnSamplePerOccurrence ==
    (~req.prepared /\ resp = <<>> /\ MatchesCount(defaults.body, RandomTag) = 2) =>
        \E rnd \in RandomDraws(req, defaults, NoStr) :
            \E values \in [1..2 -> random_line(5)] :
                LET r == prepare(req, defaults, NoStr, rnd)
                    query == make_query(defaults, r.prepared_parameters, rnd.order)
                IN  /\ values[1] # values[2]
                    /\ r.body = Replace(ReplaceEach(defaults.body, RandomTag, values), PctS, query)

\* the queries make_query can return on a prepared request
Queries(r, l) ==
    {make_query(l, r.prepared_parameters, order) :
        order \in IterationOrders(DOMAIN r.prepared_parameters)}

\* field is the template's field with `{{random}}` filled in and `%s` replaced by the query
Injected(field, template_field, query) ==
    \E v \in random_line(5) : field = Replace(Replace(template_field, RandomTag, v), PctS, query)

\* C13: after prepare() the `%s` sentinel has been replaced by the query in
\* the field(s) of the injection place and nowhere else: the path for Path,
\* the body for Body, every header value for HeaderValue; no field at the
\* injection place still contains `%s`, and no field outside it contains the
\* query.
C13_QueryAtInjectionPlace ==
    (req.prepared /\ defaults.injection_place # None) =>
        \E query \in Queries(req, defaults) :
            LET place == defaults.injection_place
                values == [i \in 1..Len(req.headers) |-> req.headers[i][2]]
                holds_query(field) == query # <<>> /\ Contains(field, query)
            IN  /\ place = "Path" =>
                      /\ Injected(req.path, defaults.path, query)
                      /\ ~Contains(req.path, PctS)
                /\ place = "Body" =>
                      /\ Injected(req.body, defaults.body, query)
                      /\ ~Contains(req.body, PctS)
                /\ place = "HeaderValue" =>
                      /\ \A i \in 1..Len(defaults.custom_headers) :
                            \E j \in 1..Len(req.headers) :
                                /\ req.headers[j][1] = defaults.custom_headers[i][1]
                                /\ Injected(req.headers[j][2], defaults.custom_headers[i][2], query)
                      /\ \A j \in 1..Len(req.headers) : ~Contains(values[j], PctS)
                /\ place # "Path" => ~holds_query(req.path)
                /\ place # "Body" => ~holds_query(req.body)
                /\ place # "HeaderValue" => \A j \in 1..Len(req.headers) : ~holds_query(values[j])

\* C16: with injection_place = Headers, prepare() adds for each candidate
\* exactly one header whose name is the candidate's name and whose value is
\* the value recorded for that candidate in the prepared parameters, so every
\* value fill_reflected_parameters counts was sent; the query is inserted nowhere.
C16_HeadersCarryPreparedValues ==
    (req.prepared /\ defaults.injection_place = "Headers") =>
        /\ \A n \in CandidateNames(req.parameters) :
              /\ Cardinality({j \in 1..Len(req.headers) : req.headers[j][1] = n}) = 1
              /\ \A j \in 1..Len(req.headers) :
                    req.headers[j][1] = n => req.headers[j][2] = req.prepared_parameters[n]
        /\ \A n \in CountedParameters(req) :
              \E j \in 1..Len(req.headers) : req.headers[j][2] = req.prepared_parameters[n]
        /\ req.path = defaults.path
        /\ req.body = defaults.body

-----------------------------------------------------------------------------
(* Request::send_by and Request::request: transport, retry, scheduling *)

\* a send_by() future before its first poll: `call` is the request() call it
\* is in (1: the match scrutinee, 2: the call in the Err arm), `attempts`
\* counts client.execute calls, `errors` the Err values request() returned,
\* `slept` the 10-second sleeps completed
NewTask ==
    [pc |-> "created", call |-> 0, attempts |-> 0, errors |-> 0, slept |-> 0, outcome |-> None]

\* request() from its entry to `std::thread::sleep(self.delay)`
request_start(task) == [task EXCEPT !.pc = "delay", !.call = @ + 1]

\* the delay is over: client.execute(reqwest_req) is called and awaited
request_execute(task) == [task EXCEPT !.pc = "execute", !.attempts = @ + 1]

\* client.execute returned Ok: the status and headers are read, res.bytes() is awaited
request_bytes(task) == [task EXCEPT !.pc = "bytes"]

\* request() built the Response; fill_reflected_parameters returned, or it
\* panicked; send_by returns the Ok of either call
send_by_on_ok(task, fill_panicked) ==
    [task EXCEPT !.pc = "done", !.outcome = IF fill_panicked THEN "Panic" ELSE "Ok"]

send_by_retry_again(task) ==
    IF task.call <= 2
    THEN [task EXCEPT !.pc = "sleep", !.errors = @ + 1]
    ELSE [task EXCEPT !.pc = "done", !.errors = @ + 1, !.outcome = "Err"]
\* request() returned Err (`?` on execute or on bytes): the first call's Err
\* leads into the 10-second sleep, the second call's Err is returned by `?`
send_by_on_err(task) ==
    IF task.call = 1
    THEN [task EXCEPT !.pc = "sleep", !.errors = @ + 1]
    ELSE [task EXCEPT !.pc = "done", !.errors = @ + 1, !.outcome = "Err"]

\* the 10-second sleep is over: the second request() call starts
send_by_retry(task) == request_start([task EXCEPT !.slept = @ + 1])

\* bodies a server answers a send with
SendBodies == {<<>>, U5}

\* the responses request() builds for a clone of r before fill_reflected_parameters
SentResponses(l, r) ==
    {ResponseOf(prepare(r, l, additional_parameter, rnd), 200, body, additional_parameter) :
        additional_parameter \in {[i \in 1..7 |-> "u"]},
        rnd \in RandomDraws(r, l, [i \in 1..7 |-> "u"]),
        body \in SendBodies}

\* whether fill_reflected_parameters panics at the end of request(), over the
\* responses it can have built and the builds with and without overflow checks
FillPanics(l, r) ==
    {fill_reflected_parameters(built, l, overflow_checks) = <<>> :
        built \in SentResponses(l, r), overflow_checks \in BOOLEAN}

SendIdle == tasks = <<>> /\ thread = 0

\* the scheduler is single-threaded and cooperative: a future is polled only
\* when no other future occupies the thread
ExecutorFree == thread = 0

\* first poll of the future: request() prepares its clone, builds the http
\* request and enters thread::sleep(delay), which keeps the executor thread
Poll(t) ==
    /\ tasks[t].pc = "created"
    /\ ExecutorFree
    /\ tasks' = [tasks EXCEPT ![t] = request_start(@)]
    /\ thread' = t
    /\ UNCHANGED <<tvars, cvars, rvars>>

\* thread::sleep(delay) returns; execute is called and the future yields at .await
DelayOver(t) ==
    /\ tasks[t].pc = "delay"
    /\ thread = t
    /\ tasks' = [tasks EXCEPT ![t] = request_execute(@)]
    /\ thread' = 0
    /\ UNCHANGED <<tvars, cvars, rvars>>

\* client.execute(..).await completes and the future is polled again
ExecuteReturns(t) ==
    /\ tasks[t].pc = "execute"
    /\ ExecutorFree
    /\ \E ok \in BOOLEAN :
          tasks' = [tasks EXCEPT ![t] = IF ok THEN request_bytes(@) ELSE send_by_on_err(@)]
    /\ thread' = IF tasks'[t].pc = "sleep" THEN t ELSE 0
    /\ UNCHANGED <<tvars, cvars, rvars>>

\* res.bytes().await completes and the future is polled again; on Ok the
\* Response is built, beautified and its reflections are counted
BytesReturns(t) ==
    /\ tasks[t].pc = "bytes"
    /\ ExecutorFree
    /\ \/ tasks' = [tasks EXCEPT ![t] = send_by_on_err(@)]
       \/ \E fill_panicked \in FillPanics(defaults, req) :
             tasks' = [tasks EXCEPT ![t] = send_by_on_ok(@, fill_panicked)]
    /\ thread' = IF tasks'[t].pc = "sleep" THEN t ELSE 0
    /\ UNCHANGED <<tvars, cvars, rvars>>

\* thread::sleep(10 s) returns; the second request() call runs up to its
\* thread::sleep(delay) without yielding
SleepOver(t) ==
    /\ tasks[t].pc = "sleep"
    /\ thread = t
    /\ tasks' = [tasks EXCEPT ![t] = send_by_retry(@)]
    /\ thread' = t
    /\ UNCHANGED <<tvars, cvars, rvars>>

-----------------------------------------------------------------------------
(* Properties of send_by (SpecSend, SpecSendFair) *)

RetriedOnce(s) ==
    /\ s.attempts <= 2
    /\ s.attempts = 2 => (s.errors >= 1 /\ s.slept = 1)
    /\ (s.pc = "done" /\ s.errors >= 1) => s.attempts = 2
    /\ (s.pc = "done" /\ s.errors = 0) => (s.attempts = 1 /\ s.slept = 0 /\ s.outcome # "Err")
    /\ s.outcome = "Err" <=> s.errors = 2

\* C2: send_by retries a transport error exactly once: no task makes more
\* than two attempts; a second attempt is made only when the first returned
\* an error and only after the 10-second sleep, and a first error always
\* leads to a second attempt; a successful first attempt is returned without
\* a retry; Err is returned only when both attempts failed; and every send
\* terminates.
C2_RetryOnce ==
    /\ [](\A t \in DOMAIN tasks : RetriedOnce(tasks[t]))
    /\ [][\A t \in DOMAIN tasks :
            tasks'[t].attempts > tasks[t].attempts =>
                \/ tasks[t].attempts = 0 /\ tasks[t].errors = 0 /\ tasks[t].slept = 0
                \/ tasks[t].attempts = 1 /\ tasks[t].errors = 1 /\ tasks[t].slept = 1]_vars
    /\ \A t \in 1..MaxTasks : (tasks[t].errors = 1) ~> (tasks[t].attempts = 2)
    /\ \A t \in 1..MaxTasks : <>(tasks[t].pc = "done")

\* C2 witness: one send returned the response of its retry, another returned
\* Err after two failed attempts
C2_Witness ==
    /\ \E t \in DOMAIN tasks :
          tasks[t].pc = "done" /\ tasks[t].outcome = "Ok" /\ tasks[t].errors = 1
    /\ \E t \in DOMAIN tasks :
          tasks[t].pc = "done" /\ tasks[t].outcome = "Err" /\ tasks[t].attempts = 2

Sleeping(t) == tasks[t].pc \in {"delay", "sleep"}
Runnable(t) == tasks[t].pc \in {"created", "execute", "bytes"}

\* C14: the per-request delay and the 10-second sleep before the retry are
\* suspension points: while one task sleeps in either of them, every other
\* task in flight can still take its next step.
C14_SleepYields ==
    \A t \in DOMAIN tasks :
        Sleeping(t) =>
            \A u \in (DOMAIN tasks) \ {t} :
                Runnable(u) => ENABLED (Poll(u) \/ ExecuteReturns(u) \/ BytesReturns(u))

-----------------------------------------------------------------------------
(* Specifications *)

\* building and recreating a template
InitTemplate == TemplateIdle /\ CompareIdle /\ RequestIdle /\ SendIdle
NextTemplate == New \/ Recreate
SpecTemplate == InitTemplate /\ [][NextTemplate]_vars

\* comparing one response with the baseline, repeatedly
InitCompare ==
    /\ c_resp \in [code : Codes, base_code : BaseCodes, oracle : DiffOracle]
    /\ c_hist = <<>>
    /\ TemplateIdle
    /\ RequestIdle
    /\ SendIdle
NextCompare == Compare
SpecCompare == InitCompare /\ [][NextCompare]_vars

\* a request from its creation to the response made of it without transport
InitRequest ==
    /\ t_in \in RequestInputs
    /\ defaults = new(t_in)
    /\ t_calls = 1
    /\ req \in {NewRequest(defaults, parameters) :
                    parameters \in {p \in ParameterLists :
                        t_in.injection_place = "Headers" => Len(p) <= MaxHeaderParams}}
    /\ resp = <<>> /\ result = <<>> /\ panicked = FALSE /\ calls = 0
    /\ CompareIdle
    /\ SendIdle
NextRequest ==
    \/ Prepare
    \/ print_request
    \/ RequestErr
    \/ EmptyResponse
    \/ ProceedReflectedParameters
SpecRequest == InitRequest /\ [][NextRequest]_vars

\* a response as request() built it, its reflections counted and analysed
InitResponse ==
    /\ t_in = RequestInput("Path", <<>>, <<>>, FALSE)
    /\ \E baseline \in Baselines, amount \in {0, MaxAmount} :
          defaults = [new(t_in) EXCEPT !.initial_response = baseline,
                                       !.amount_of_reflections = amount]
    /\ t_calls = 1
    /\ \E built \in BuiltResponses(new(t_in)) :
          /\ resp = <<built>>
          /\ req = built.request
    /\ result = <<>> /\ panicked = FALSE /\ calls = 0
    /\ CompareIdle
    /\ SendIdle
NextResponse ==
    \/ FillReflectedParameters
    \/ ProceedReflectedParameters
SpecResponse == InitResponse /\ [][NextResponse]_vars

\* send_by() futures of one request on the executor, after baseline learning
InitSend ==
    /\ t_in = RequestInput("Path", <<>>, <<>>, FALSE)
    /\ \E baseline \in Baselines :
          defaults = [new(t_in) EXCEPT !.initial_response = baseline]
    /\ t_calls = 1
    /\ req = NewRequest(defaults, <<A>>)
    /\ resp = <<>> /\ result = <<>> /\ panicked = FALSE /\ calls = 0
    /\ CompareIdle
    /\ tasks = [t \in 1..MaxTasks |-> NewTask]
    /\ thread = 0
NextSend ==
    \E t \in 1..MaxTasks :
        \/ Poll(t)
        \/ DelayOver(t)
        \/ ExecuteReturns(t)
        \/ BytesReturns(t)
        \/ SleepOver(t)
SpecSend == InitSend /\ [][NextSend]_vars

\* the executor keeps polling while a future is ready, a sleep ends, and the
\* client answers every exchange with Ok or Err: some step of some future is
\* taken as long as one is possible
SpecSendFair == SpecSend /\ WF_vars(NextSend)

====
